---- MODULE Spec2Model ----
(***************************************************************************)
(* Echo State Network of src/reservoir.py: construction of a Reservoir and *)
(* one call of Reservoir.training_testing(n1, n2), as in the __main__      *)
(* block.  The call is cut at its statements: initialisation, one action   *)
(* per iteration of the teacher-forced loop, the readout fit, the start of *)
(* the test phase, one action per iteration of the autonomous loop.        *)
(*                                                                         *)
(* Numbers: float64 values are represented by the residues 0..Modulus-1,   *)
(* with + and * taken modulo Modulus.  0.5 is the residue `leak' with      *)
(* 2*leak = 1, tanh is the odd saturating map Tanh, and the draws of       *)
(* np.random are a fixed function of the generator's seed.                 *)
(***************************************************************************)
EXTENDS Integers, Sequences, FiniteSets, TLC

\* ---- bounds of the model ------------------------------------------------
Modulus == 5      \* size of the value domain
MaxDim == 2       \* largest dim_N_x, dim_N_y, dim_N_u passed to Reservoir()
MaxSeed == 1      \* seeds of the random generator
MaxExtra == 3     \* n1 ranges over 0 .. warmup + MaxExtra
MaxTest == 2      \* n2 ranges up to n1 + MaxTest

\* ---- program constants --------------------------------------------------
warmup == 100     \* self.warmup
leak == 3         \* self.leak = 0.5: the residue with 2 * leak = 1 (mod 5)
Eps == 1          \* the ridge term 1e-8 of update(): the smallest positive value

Val == 0 .. (Modulus - 1)
DataLen == warmup + MaxExtra + MaxTest + 1

VARIABLES pc, err, args, fields,
          dim_N_x, dim_N_y, dim_N_u,
          weight_in, weight_out, weight,
          input, output, internal,
          n1, n2, i, reservoir_state, input_signal, result, signal,
          pre, input_src, nsteps, wout_writes

vars == <<pc, err, args, fields, dim_N_x, dim_N_y, dim_N_u, weight_in, weight_out,
          weight, input, output, internal, n1, n2, i, reservoir_state,
          input_signal, result, signal, pre, input_src, nsteps, wout_writes>>

attrs == <<fields, dim_N_x, dim_N_y, dim_N_u, weight_in, weight_out, weight,
           input, output, internal>>
locals == <<n1, n2, i, reservoir_state, input_signal, result, signal>>

\* ---- arithmetic on values, vectors and matrices --------------------------
Add(a, b) == (a + b) % Modulus
Mul(a, b) == (a * b) % Modulus
Neg(a) == (Modulus - a) % Modulus

RECURSIVE SumTo(_, _)
\* sum of f[1] .. f[n]
SumTo(f, n) == IF n = 0 THEN 0 ELSE Add(SumTo(f, n - 1), f[n])

\* np.dot / @ of two vectors of the same length
Dot(u, v) == SumTo([k \in 1 .. Len(u) |-> Mul(u[k], v[k])], Len(u))

\* A @ v is defined when the columns of A match the length of v
ShapeOK(A, v) == \A r \in 1 .. Len(A) : Len(A[r]) = Len(v)
MatVec(A, v) == [r \in 1 .. Len(A) |-> Dot(A[r], v)]
VecAdd(u, v) == [k \in 1 .. Len(u) |-> Add(u[k], v[k])]
Scale(c, v) == [k \in 1 .. Len(v) |-> Mul(c, v[k])]

\* np.tanh: odd, tanh(0) = 0, saturating at 1 and -1
Tanh(a) == IF a = 0 THEN 0 ELSE IF 2 * a < Modulus THEN 1 ELSE Modulus - 1

\* ---- the time series of mackey-glass.npy --------------------------------
Data(k) == (k * k + (k \div 3) + 1) % Modulus

Min(a, b) == IF a < b THEN a ELSE b
\* len(data[lo:hi])
SliceLen(lo, hi) == IF Min(hi, DataLen) > Min(lo, DataLen)
                    THEN Min(hi, DataLen) - Min(lo, DataLen) ELSE 0
\* train[k] and test[k] of train_test_mackey_glass_npy(n1, n2): rows of shape (1,)
Train(k) == <<Data(k)>>
Test(k) == <<Data(n1 + k)>>

\* ---- Reservoir.__init__ ---------------------------------------------------
\* the k-th draw of the generator seeded with s
Rand(s, k) == ((s + 1) * (k * k + 1) + k) % Modulus

RandMatrix(s, off, rows, cols) ==
    [r \in 1 .. rows |-> [c \in 1 .. cols |-> Rand(s, off + (r - 1) * cols + c)]]

\* radius / max(|eigvals(W)|): a nonzero scalar determined by W
SpectralScale(W) ==
    1 + (SumTo([k \in 1 .. Len(W) |-> W[k][k]], Len(W)) % (Modulus - 1))

AllFields == {"radius", "leak", "warmup", "dim_N_x", "dim_N_y", "dim_N_u",
              "weight_in", "weight_out", "weight", "input", "output", "internal"}

NoErr == [type |-> "none", at |-> "none"]

Init ==
    /\ pc = "new"
    /\ err = NoErr
    /\ args = [dim_N_x |-> 0, dim_N_y |-> 0, dim_N_u |-> 0]
    /\ fields = {}
    /\ dim_N_x = 0 /\ dim_N_y = 0 /\ dim_N_u = 0
    /\ weight_in = <<>> /\ weight_out = <<>> /\ weight = <<>>
    /\ input = <<>> /\ output = <<>> /\ internal = <<>>
    /\ n1 = 0 /\ n2 = 0 /\ i = 0
    /\ reservoir_state = <<>> /\ input_signal = <<>>
    /\ result = <<>> /\ signal = <<>>
    /\ pre = [internal |-> <<>>, input |-> <<>>, output |-> <<>>, weight_out |-> <<>>]
    /\ input_src = [kind |-> "none", idx |-> 0]
    /\ nsteps = 0
    /\ wout_writes = 0

\* Construct with the dimension test made after the fields are initialised
ConstructLateCheck(dx, dy, du, s) ==
    /\ pc = "new"
    /\ args' = [dim_N_x |-> dx, dim_N_y |-> dy, dim_N_u |-> du]
    /\ IF dy # du
       THEN /\ pc' = "ctor_raised"
            /\ err' = [type |-> "ValueError", at |-> "ctor"]
       ELSE /\ pc' = "idle"
            /\ err' = err
    /\ fields' = AllFields
    /\ dim_N_x' = dx /\ dim_N_y' = dy /\ dim_N_u' = du
    /\ weight_in' = RandMatrix(s, 0, dx, du)
    /\ weight_out' = RandMatrix(s, dx * du, dy, dx)
    /\ LET W == RandMatrix(s, dx * du + dy * dx, dx, dx)
       IN weight' = [r \in 1 .. dx |-> Scale(SpectralScale(W), W[r])]
    /\ input' = <<0>>
    /\ output' = <<0>>
    /\ internal' = [k \in 1 .. dx |->
                      Rand(s, dx * du + dy * dx + 2 * dx * dx + k)]
    /\ input_src' = [kind |-> "ctor", idx |-> 0]
    /\ UNCHANGED <<locals, pre, nsteps, wout_writes>>

\* Reservoir(dx, dy, du) with the random generator in state s
Construct(dx, dy, du, s) ==
    /\ pc = "new"
    /\ args' = [dim_N_x |-> dx, dim_N_y |-> dy, dim_N_u |-> du]
    /\ IF dy # du
       THEN /\ pc' = "ctor_raised"
            /\ err' = [type |-> "ValueError", at |-> "ctor"]
            /\ UNCHANGED <<attrs, input_src>>
       ELSE /\ pc' = "idle"
            /\ err' = err
            /\ fields' = AllFields
            /\ dim_N_x' = dx /\ dim_N_y' = dy /\ dim_N_u' = du
            /\ weight_in' = RandMatrix(s, 0, dx, du)
            /\ weight_out' = RandMatrix(s, dx * du, dy, dx)
            /\ LET W == RandMatrix(s, dx * du + dy * dx, dx, dx)
               IN weight' = [r \in 1 .. dx |-> Scale(SpectralScale(W), W[r])]
            /\ input' = <<0>>
            /\ output' = <<0>>
            /\ internal' = [k \in 1 .. dx |->
                              Rand(s, dx * du + dy * dx + 2 * dx * dx + k)]
            /\ input_src' = [kind |-> "ctor", idx |-> 0]
    /\ UNCHANGED <<locals, pre, nsteps, wout_writes>>

\* ---- Reservoir.forward* -------------------------------------------------
\* forward_input: W_in . u(n)
forward_input(Win, u) == MatVec(Win, u)

\* forward_internal: W . x(n-1)
forward_internal(W, x) == MatVec(W, x)

\* forward: tanh(W_in.u(n) + W.x(n-1))
forward(Win, W, u, x) ==
    LET s == VecAdd(forward_input(Win, u), forward_internal(W, x))
    IN [k \in 1 .. Len(s) |-> Tanh(s[k])]

\* forward_out: W_out . x(n)
forward_out(Wout, x) == MatVec(Wout, x)

\* (1 - self.leak) * self.internal + self.leak * self.forward()
Leaky(Win, W, u, x) ==
    VecAdd(Scale(Add(1, Neg(leak)), x), Scale(leak, forward(Win, W, u, x)))

\* Bias with the overwrite of the first unit left out
BiasSkipped(x) == x

\* self.internal[0] = 1
Bias(x) == [x EXCEPT ![1] = 1]

\* the two statements that advance the reservoir by one step
StateUpdate(Win, W, u, x) == Bias(Leaky(Win, W, u, x))

\* ---- Reservoir.update -----------------------------------------------------
Transpose(M) == [c \in 1 .. Len(M[1]) |-> [r \in 1 .. Len(M) |-> M[r][c]]]

MatMul(A, B) ==
    [r \in 1 .. Len(A) |->
       [c \in 1 .. Len(B[1]) |->
          SumTo([k \in 1 .. Len(B) |-> Mul(A[r][k], B[k][c])], Len(B))]]

\* M without row r and column c
Minor(M, r, c) ==
    [a \in 1 .. (Len(M) - 1) |->
       [b \in 1 .. (Len(M) - 1) |->
          M[IF a < r THEN a ELSE a + 1][IF b < c THEN b ELSE b + 1]]]

Signed(k, v) == IF k % 2 = 0 THEN v ELSE Neg(v)

RECURSIVE Det(_)
Det(M) ==
    IF Len(M) = 0 THEN 1
    ELSE SumTo([c \in 1 .. Len(M) |->
                  Signed(1 + c, Mul(M[1][c], Det(Minor(M, 1, c))))], Len(M))

Invertible(d) == \E r \in Val : Mul(d, r) = 1
Reciprocal(d) == CHOOSE r \in Val : Mul(d, r) = 1

\* np.linalg.inv, defined when the determinant has a reciprocal
Inv(M) ==
    [r \in 1 .. Len(M) |->
       [c \in 1 .. Len(M) |->
          Mul(Reciprocal(Det(M)), Signed(r + c, Det(Minor(M, c, r))))]]

\* x @ x.T + 1e-8 * np.eye(self.dim_N_x), x the transposed trace
Gram(xs, dx) ==
    LET x == Transpose(xs)
        g == MatMul(x, xs)
    IN [r \in 1 .. dx |-> [c \in 1 .. dx |->
          Add(g[r][c], IF r = c THEN Eps ELSE 0)]]

\* the exception update(xs, ys) ends in, "none" when it returns: on an empty
\* trace the transposes are 1-D and empty, the products scalars, and the last
\* @ rejects its scalar operand; np.linalg.inv raises LinAlgError on a matrix
\* that is exactly singular (in float64 the ridge term makes that a rarity,
\* among residues it does occur)
updateRaises(xs, dx) ==
    IF xs = <<>> THEN "ValueError"
    ELSE IF ~Invertible(Det(Gram(xs, dx))) THEN "LinAlgError"
    ELSE "none"

\* new_W_out = (y @ x.T) @ inv(x @ x.T + 1e-8 * eye)
update(xs, ys, dx) ==
    LET y == Transpose(ys)
    IN MatMul(MatMul(y, xs), Inv(Gram(xs, dx)))

\* ---- Reservoir.training_testing -------------------------------------------
\* the test of `for k in range(n)`: the body while k < n, else what follows
LoopPc(k, n, body, exit) == IF k < n THEN body ELSE exit

Src(kind, idx) == [kind |-> kind, idx |-> idx]

Raise(type, at) ==
    /\ pc' = "raised"
    /\ err' = [type |-> type, at |-> at]

\* lines 199-201: load the slices, self.input = train[0], empty traces
Call(a, b) ==
    /\ pc = "idle"
    /\ n1' = a /\ n2' = b
    /\ pre' = [internal |-> internal, input |-> input, output |-> output,
               weight_out |-> weight_out]
    /\ IF SliceLen(0, a) = 0
       THEN /\ Raise("IndexError", "init")
            /\ UNCHANGED <<input, input_src, i>>
       ELSE /\ input' = Train(0)
            /\ input_src' = Src("train", 0)
            /\ i' = 0
            /\ pc' = LoopPc(0, a - 1, "train", "fit")
            /\ err' = err
    /\ reservoir_state' = <<>> /\ input_signal' = <<>>
    /\ UNCHANGED <<args, fields, dim_N_x, dim_N_y, dim_N_u, weight_in, weight_out,
                   weight, output, internal, result, signal, nsteps, wout_writes>>

\* TrainStep with the readout refitted at every recorded step
TrainStepOnline ==
    /\ pc = "train"
    /\ IF ~ShapeOK(weight_in, input)
       THEN /\ Raise("ValueError", "train")
            /\ UNCHANGED <<internal, reservoir_state, input_signal, input,
                           input_src, i, nsteps, weight_out>>
       ELSE /\ internal' = StateUpdate(weight_in, weight, input, internal)
            /\ IF i >= warmup
               THEN /\ reservoir_state' = Append(reservoir_state, internal')
                    /\ input_signal' = Append(input_signal, input)
               ELSE UNCHANGED <<reservoir_state, input_signal>>
            /\ weight_out' =
                  IF i >= warmup
                     /\ updateRaises(Append(reservoir_state, internal'), dim_N_x) = "none"
                  THEN update(Append(reservoir_state, internal'),
                              Append(input_signal, input), dim_N_x)
                  ELSE weight_out
            /\ input' = Train(i + 1)
            /\ input_src' = Src("train", i + 1)
            /\ i' = i + 1
            /\ nsteps' = nsteps + 1
            /\ pc' = LoopPc(i + 1, n1 - 1, "train", "fit")
            /\ err' = err
    /\ UNCHANGED <<args, fields, dim_N_x, dim_N_y, dim_N_u, weight_in,
                   weight, output, n1, n2, result, signal, pre, wout_writes>>

\* lines 204-212: one iteration of the warmup-and-saving loop
TrainStep ==
    /\ pc = "train"
    /\ IF ~ShapeOK(weight_in, input)
       THEN /\ Raise("ValueError", "train")
            /\ UNCHANGED <<internal, reservoir_state, input_signal, input,
                           input_src, i, nsteps>>
       ELSE /\ internal' = StateUpdate(weight_in, weight, input, internal)
            /\ IF i >= warmup
               THEN /\ reservoir_state' = Append(reservoir_state, internal')
                    /\ input_signal' = Append(input_signal, input)
               ELSE UNCHANGED <<reservoir_state, input_signal>>
            /\ input' = Train(i + 1)
            /\ input_src' = Src("train", i + 1)
            /\ i' = i + 1
            /\ nsteps' = nsteps + 1
            /\ pc' = LoopPc(i + 1, n1 - 1, "train", "fit")
            /\ err' = err
    /\ UNCHANGED <<args, fields, dim_N_x, dim_N_y, dim_N_u, weight_in, weight_out,
                   weight, output, n1, n2, result, signal, pre, wout_writes>>

\* line 215: self.weight_out = self.update(reservoir_state, input_signal)
Fit ==
    /\ pc = "fit"
    /\ IF updateRaises(reservoir_state, dim_N_x) # "none"
       THEN /\ Raise(updateRaises(reservoir_state, dim_N_x), "fit")
            /\ UNCHANGED <<weight_out, wout_writes>>
       ELSE /\ weight_out' = update(reservoir_state, input_signal, dim_N_x)
            /\ wout_writes' = wout_writes + 1
            /\ pc' = "testinit"
            /\ err' = err
    /\ UNCHANGED <<args, fields, dim_N_x, dim_N_y, dim_N_u, weight_in, weight,
                   input, output, internal, locals, pre, input_src, nsteps>>

\* TestInit with the reservoir state cleared at the train/test boundary
TestInitReset ==
    /\ pc = "testinit"
    /\ result' = <<>> /\ signal' = <<>>
    /\ internal' = [k \in 1 .. dim_N_x |-> 0]
    /\ IF SliceLen(n1, n2) = 0
       THEN /\ Raise("IndexError", "testinit")
            /\ UNCHANGED <<input, input_src, i>>
       ELSE /\ input' = Test(0)
            /\ input_src' = Src("test", 0)
            /\ i' = 0
            /\ pc' = LoopPc(0, n2 - n1, "test", "returned")
            /\ err' = err
    /\ UNCHANGED <<args, fields, dim_N_x, dim_N_y, dim_N_u, weight_in, weight_out,
                   weight, output, n1, n2, reservoir_state,
                   input_signal, pre, nsteps, wout_writes>>

\* lines 218-219: result, signal = [], [] and self.input = test[0]
TestInit ==
    /\ pc = "testinit"
    /\ result' = <<>> /\ signal' = <<>>
    /\ IF SliceLen(n1, n2) = 0
       THEN /\ Raise("IndexError", "testinit")
            /\ UNCHANGED <<input, input_src, i>>
       ELSE /\ input' = Test(0)
            /\ input_src' = Src("test", 0)
            /\ i' = 0
            /\ pc' = LoopPc(0, n2 - n1, "test", "returned")
            /\ err' = err
    /\ UNCHANGED <<args, fields, dim_N_x, dim_N_y, dim_N_u, weight_in, weight_out,
                   weight, output, internal, n1, n2, reservoir_state,
                   input_signal, pre, nsteps, wout_writes>>

\* TestStep with the next ground-truth value fed back instead of the output
TestStepTeacherForced ==
    /\ pc = "test"
    /\ IF ~ShapeOK(weight_in, input)
       THEN /\ Raise("ValueError", "test")
            /\ UNCHANGED <<internal, output, result, signal, input,
                           input_src, i, nsteps>>
       ELSE /\ internal' = StateUpdate(weight_in, weight, input, internal)
            /\ output' = forward_out(weight_out, internal')
            /\ result' = Append(result, output'[1])
            /\ signal' = Append(signal, Test(i)[1])
            /\ input' = Test(i + 1)
            /\ input_src' = Src("test", i + 1)
            /\ i' = i + 1
            /\ nsteps' = nsteps + 1
            /\ pc' = LoopPc(i + 1, n2 - n1, "test", "returned")
            /\ err' = err
    /\ UNCHANGED <<args, fields, dim_N_x, dim_N_y, dim_N_u, weight_in, weight_out,
                   weight, n1, n2, reservoir_state, input_signal, pre,
                   wout_writes>>

\* lines 220-230: one iteration of the testing loop; the return after the last
TestStep ==
    /\ pc = "test"
    /\ IF ~ShapeOK(weight_in, input)
       THEN /\ Raise("ValueError", "test")
            /\ UNCHANGED <<internal, output, result, signal, input,
                           input_src, i, nsteps>>
       ELSE /\ internal' = StateUpdate(weight_in, weight, input, internal)
            /\ output' = forward_out(weight_out, internal')
            /\ result' = Append(result, output'[1])
            /\ signal' = Append(signal, Test(i)[1])
            /\ input' = output'
            /\ input_src' = Src("output", i)
            /\ i' = i + 1
            /\ nsteps' = nsteps + 1
            /\ pc' = LoopPc(i + 1, n2 - n1, "test", "returned")
            /\ err' = err
    /\ UNCHANGED <<args, fields, dim_N_x, dim_N_y, dim_N_u, weight_in, weight_out,
                   weight, n1, n2, reservoir_state, input_signal, pre,
                   wout_writes>>

\* return signal, result
Returned == <<signal, result>>

N1s == 0 .. (warmup + MaxExtra)
N2s(a) == {b \in (a - 1) .. (a + MaxTest) : b >= 0}

Next ==
    \/ \E dx \in 1 .. MaxDim, dy \in 1 .. MaxDim, du \in 1 .. MaxDim, s \in 1 .. MaxSeed :
          Construct(dx, dy, du, s)
    \/ \E a \in N1s : \E b \in N2s(a) : Call(a, b)
    \/ TrainStep
    \/ Fit
    \/ TestInit
    \/ TestStep

Spec == Init /\ [][Next]_vars

\* ---- properties -----------------------------------------------------------
Ended == pc \in {"returned", "raised"}

\* the reservoir's input dimension matches the scalar series
ScalarIO == dim_N_u = 1

\* C1: a call with n1 > warmup and n2 > n1 on a series of length >= n2 returns
\* (true signal, predicted signal), both of length n2 - n1, the k-th true value
\* being the series value at index n1 + k.
C1_ReturnsAlignedPair ==
    (Ended /\ ScalarIO /\ n1 > warmup /\ n2 > n1 /\ n2 <= DataLen) =>
        /\ pc = "returned"
        /\ Len(Returned[1]) = n2 - n1
        /\ Len(Returned[2]) = n2 - n1
        /\ \A k \in 1 .. (n2 - n1) : Returned[1][k] = Data(n1 + k - 1)

\* C2: a call with n1 > warmup and n2 <= n1 returns two empty sequences and
\* raises nothing (stated for the calls whose readout fit went through, so that
\* the outcome is the one of the empty test slice).
C2_EmptyTestReturnsEmpty ==
    (Ended /\ ScalarIO /\ n1 > warmup /\ n2 <= n1 /\ wout_writes = 1) =>
        (pc = "returned" /\ Returned = << <<>>, <<>> >>)

\* C3: a call with n1 <= warmup ends in an error raised at the fit, and
\* weight_out is what it was before the call.
C3_ShortTrainingFailsAtFit ==
    (Ended /\ ScalarIO /\ n1 <= warmup) =>
        (pc = "raised" /\ err.at = "fit" /\ weight_out = pre.weight_out)

\* C4: a call that ends in an error leaves internal, input, output and
\* weight_out as they were before the call.
C4_ErrorHasNoSideEffects ==
    (pc = "raised") =>
        /\ internal = pre.internal
        /\ input = pre.input
        /\ output = pre.output
        /\ weight_out = pre.weight_out

\* C5: Reservoir(dim_x, dim_y, dim_u) raises the configuration error exactly
\* when dim_y # dim_u, and raises it before any field of the instance is set.
C5_ConfigurationError ==
    (pc # "new") =>
        /\ (args.dim_N_y # args.dim_N_u) <=> (pc = "ctor_raised")
        /\ (pc = "ctor_raised") =>
              /\ err = [type |-> "ValueError", at |-> "ctor"]
              /\ fields = {}
              /\ weight_in = <<>> /\ weight_out = <<>> /\ weight = <<>>
              /\ input = <<>> /\ output = <<>> /\ internal = <<>>
        /\ (pc # "ctor_raised") =>
              /\ fields = AllFields
              /\ dim_N_y = dim_N_u
              /\ ~(err.at = "ctor")

C5_Witness == pc = "ctor_raised" /\ args.dim_N_y # args.dim_N_u

\* C6: for n1 > warmup the trace handed to the readout fit has exactly
\* n1 - warmup rows, each of length dim_x, with as many targets.
C6_TraceHasN1MinusWarmupRows ==
    (pc = "fit" /\ ScalarIO /\ n1 > warmup) =>
        /\ Len(reservoir_state) = n1 - warmup
        /\ Len(input_signal) = n1 - warmup
        /\ \A k \in 1 .. Len(reservoir_state) : Len(reservoir_state[k]) = dim_N_x

\* C7: after every state-update step internal[0] is 1; every recorded state
\* has first element 1; the output of a test step is computed from that state.
C7_BiasInvariant ==
    /\ (nsteps > 0) => (internal[1] = 1)
    /\ \A k \in 1 .. Len(reservoir_state) : reservoir_state[k][1] = 1
    /\ (pc \in {"test", "returned"} /\ i > 0) =>
          (output = forward_out(weight_out, internal) /\ internal[1] = 1)

C7_Witness ==
    /\ pc = "returned"
    /\ Len(reservoir_state) >= 2
    /\ Len(result) >= 2
    /\ dim_N_x >= 2

\* C8: in the testing loop the input of step 0 is test[0], and the input of
\* every step i >= 1 is the output produced at step i - 1; nothing else is fed.
C8_AutonomousInput ==
    (pc = "test") =>
        /\ (i = 0) => (input = Test(0) /\ input_src = Src("test", 0))
        /\ (i >= 1) => /\ input = <<result[i]>>
                       /\ input = output
                       /\ input_src = Src("output", i - 1)
        /\ input_src.kind # "train"

C8_Witness == pc = "test" /\ i >= 1 /\ input # Test(i)

\* C9: after construction weight_in and weight never change; weight_out is
\* written once per successful call, by the fit, after the training loop and
\* before the testing loop; the fit changes no other field.
C9_WeightFrame ==
    /\ [](/\ (pc \in {"idle", "train", "fit"}) => (wout_writes = 0)
          /\ (pc \in {"testinit", "test", "returned"}) => (wout_writes = 1))
    /\ [][/\ (pc # "new") => (weight_in' = weight_in /\ weight' = weight)
          /\ (pc # "new" /\ (weight_out' # weight_out \/ wout_writes' # wout_writes)) =>
                (pc = "fit" /\ pc' = "testinit" /\ wout_writes' = wout_writes + 1)
          /\ (pc = "fit") =>
                UNCHANGED <<fields, dim_N_x, dim_N_y, dim_N_u, weight_in, weight,
                            input, output, internal>>
          /\ (pc = "fit" /\ pc' = "raised") => (weight_out' = weight_out)]_vars

C9_Witness == pc = "returned" /\ wout_writes = 1 /\ weight_out # pre.weight_out

\* C10: the internal state is not reset between training and testing: the fit
\* and the start of the test phase leave it alone, and the first test step
\* starts from the state the last training step left.
C10_StateContinuity ==
    /\ []((pc = "testinit" \/ (pc = "test" /\ i = 0)) =>
             (internal = reservoir_state[Len(reservoir_state)]))
    /\ [][/\ (pc \in {"fit", "testinit"}) => (internal' = internal)
          /\ (pc = "test" /\ i = 0 /\ pc' # "raised") =>
                (internal' = StateUpdate(weight_in, weight, input,
                                         reservoir_state[Len(reservoir_state)]))]_vars

C10_Witness == pc = "test" /\ i = 1 /\ internal # reservoir_state[Len(reservoir_state)]
====
